---------------------------- MODULE Spec2Model ----------------------------
(***************************************************************************)
(* Model of src/Ass/A4/ct_parallel02.cpp: voxel-driven CT back-projection  *)
(* distributed over an MPI process group (reconstruction, read_file,       *)
(* write_file, load_global_data, load_projection_data) with an OpenMP      *)
(* parallel loop over the z slices of the volume.                          *)
(*                                                                         *)
(* Values are integers: the float arithmetic of the kernel is modelled on  *)
(* integer-valued data, where products, sums and the rounded quotient are  *)
(* exact.                                                                  *)
(***************************************************************************)
EXTENDS Integers, Sequences, FiniteSets, TLC

(***************************************************************************)
(* Bounds of the model.  mpi_size, num_voxels and the projection count     *)
(* are drawn from 1..MaxSize, 1..MaxVoxels and 0..MaxProjections.          *)
(***************************************************************************)
MaxSize == 3
MaxProjections == 3
MaxVoxels == 2
MaxThreads == 2

(***************************************************************************)
(* Program constants (lines 21-22).  num_projections (line 20, 320 in the  *)
(* source) is a variable fixed at Init, so that the partition is checked   *)
(* for divisible and non-divisible counts and for mpi_size above it.       *)
(***************************************************************************)
detector_rows == 192
detector_columns == 256

\* The range of int32_t (lines 213-214)
INT32_MAX == 2147483647
INT32_MIN == (-INT32_MAX) - 1

\* sizeof(float) (lines 39, 79, 80)
sizeof_float == 4

VARIABLES
    mpi_size,            \* MPI_Comm_size: number of ranks of the run
    num_projections,     \* the projection count, a constant of the build
    num_voxels,          \* --num-voxels
    output_filename,     \* --out ("" when absent)
    dataset,             \* which input files the run reads
    fp_convert,          \* the build's float -> int32 conversion of inf/NaN
    pc,                  \* per rank: position in reconstruction()
    rd,                  \* per rank: the read_file call it is at
    projection_id,       \* per rank: loop variable of line 189
    gdata,               \* per rank: GlobalData
    pdata,               \* per rank: ProjectionData of the current iteration
    recon_volume,        \* per rank: local volume
    recon_volume_final,  \* per rank: receive buffer of MPI_Reduce
    calls,               \* per rank: the read_file calls issued so far
    reduce_in,           \* ranks that have called MPI_Reduce
    barrier_in,          \* ranks that have called MPI_Barrier
    out_file,            \* the output file: a sequence of bytes, or <<>>
    write_log,           \* the write_file calls: <<rank, offset, filename>>
    report,              \* per rank: the checksums printed
    omp,                 \* per rank: state of the parallel region's threads
    unreadable,          \* the input files that cannot be opened for reading
    rt,                  \* a write_file / read_file round trip on one file
    arith                \* the index arithmetic evaluated for one projection

vars == <<mpi_size, num_projections, num_voxels, output_filename, dataset,
          fp_convert, pc, rd, projection_id, gdata, pdata, recon_volume,
          recon_volume_final, calls, reduce_in, barrier_in, out_file,
          write_log, report, omp, unreadable, rt, arith>>

params == <<mpi_size, num_projections, num_voxels, output_filename, dataset,
            fp_convert, unreadable>>

\* The state the run of reconstruction() never touches
apart == <<rt, arith>>

Ranks == 0 .. (mpi_size - 1)

NoReport == <<>>

(***************************************************************************)
(* The product of two int, as the build evaluates it: in 32 bits, on the   *)
(* two's-complement words of the operands, the bits above bit 31 dropped.  *)
(* (Signed overflow is undefined in the language; the multiply             *)
(* instruction the compilers emit for int operands wraps.)  Words are      *)
(* taken apart in limbs of 15 bits, so that no intermediate value leaves   *)
(* the 32-bit range.                                                       *)
(***************************************************************************)
Limb == 32768

Limbs(a) == << a % Limb, (a \div Limb) % Limb, (a \div (Limb * Limb)) % 4 >>

Mul32(a, b) ==
    IF 0 <= a /\ a < Limb /\ 0 <= b /\ b < Limb
    THEN a * b   \* below 2^30: nothing to drop
    ELSE LET x  == Limbs(a)
             y  == Limbs(b)
             t0 == x[1] * y[1]
             t1 == x[1] * y[2] + x[2] * y[1] + (t0 \div Limb)
             t2 == x[1] * y[3] + x[2] * y[2] + x[3] * y[1] + (t1 \div Limb)
             low == (t0 % Limb) + (t1 % Limb) * Limb
                        + (t2 % 2) * (Limb * Limb)
         IN  IF (t2 \div 2) % 2 = 1 THEN (low - INT32_MAX) - 1 ELSE low

\* uint64_t size = num_voxels * num_voxels (line 176)
size == Mul32(num_voxels, num_voxels)

\* uint64_t recon_volume_size = num_voxels * num_voxels * num_voxels (line 170)
recon_volume_size == Mul32(Mul32(num_voxels, num_voxels), num_voxels)

(***************************************************************************)
(* The input files.  A projection has a kind: the transform matrix, the    *)
(* detector image and the weight table the files hold for it.              *)
(***************************************************************************)
Kinds == <<"origin", "corner", "lower", "upper", "pastcol", "persp",
           "negative", "wzero">>

\* A dataset holds, for projection p, the kind at place dataset + p (cyclically)
Datasets == {0, 2, 4, 6}

KindOf(p) == Kinds[((dataset + p) % Len(Kinds)) + 1]

\* transform.bin: the 3 x 4 row-major matrix of a projection of kind k
TransformOf(k) ==
    CASE k = "origin"   -> << 0, 0, 0, 0,     0, 0, 0, 0,     0, 0, 0, 1 >>
      [] k = "corner"   -> << 0, 0, 0, 255,   0, 0, 0, 191,   0, 0, 0, 1 >>
      [] k = "pastcol"  -> << 0, 0, 0, 256,   0, 0, 0, 0,     0, 0, 0, 1 >>
      [] k = "lower"    -> << 0, 0, 0, 0,     0, 0, -1, 0,    0, 0, 0, 1 >>
      [] k = "upper"    -> << 0, 0, 0, 0,     0, 0, 1, -1,    0, 0, 0, 1 >>
      [] k = "persp"    -> << 1, 0, 0, 0,     0, 3, 1, 0,     0, 0, 0, 2 >>
      [] k = "negative" -> << -1, 0, 0, 0,    0, 1, 0, 0,     0, 0, 0, 2 >>
      [] k = "wzero"    -> << 1, 0, 0, 0,     0, 1, -1, 0,    0, 0, 0, 0 >>

\* projections.bin: pixel e of the image of a projection of kind k
ImageOf(k, e) ==
    CASE k = "origin" -> 5
      [] k \in {"lower", "upper"} -> 1
      [] k \in {"corner", "pastcol"} -> 1 + (e % 7)
      [] OTHER -> e % 5

\* volumeweight.bin: weight of column i for a projection of kind k
WeightOf(k, i) ==
    IF k \in {"origin", "lower", "upper"} THEN 1 ELSE 1 + (i % 3)

\* combined.bin: rows 0 and 1 hold x and y of column i, row 2 a placeholder,
\* row 3 the homogeneous 1
CombinedAt(e) ==
    LET row == e \div (num_voxels * num_voxels)
        i   == e % (num_voxels * num_voxels)
    IN  CASE row = 0 -> i % num_voxels
          [] row = 1 -> i \div num_voxels
          [] row = 2 -> 9
          [] OTHER   -> 1

(***************************************************************************)
(* The object representation of a float, sizeof(float) bytes: what         *)
(* write_file puts into the file through reinterpret_cast<const char *>    *)
(* (line 80) and what read_file takes out of it as MPI_FLOAT in the        *)
(* "native" data representation (line 61).  The values of the model are    *)
(* integers; their bytes are those of the 32-bit word, low byte first.     *)
(***************************************************************************)
Bytes(v) ==
    LET u == IF v < 0 THEN (v + INT32_MAX) + 1 ELSE v
    IN  << u % 256, (u \div 256) % 256, (u \div 65536) % 256,
           (u \div 16777216) + (IF v < 0 THEN 128 ELSE 0) >>

FloatOf(b) ==
    LET u == b[1] + 256 * b[2] + 65536 * b[3] + 16777216 * (b[4] % 128)
    IN  IF b[4] >= 128 THEN (u - INT32_MAX) - 1 ELSE u

\* The float read_file gets at byte offset_bin of the output file.  Past the
\* end of the file nothing is transferred, and the bytes of the vector keep
\* the zero they were created with (line 45).
FloatAt(file, offset_bin) ==
    FloatOf([j \in 1 .. sizeof_float |->
                IF (offset_bin + j - 1) \in DOMAIN file
                THEN file[offset_bin + j - 1] ELSE 0])

\* Element e (in floats) of a file: offset_bin = offset * sizeof(float)
\* (line 39).  The input files are given float by float, the output file is
\* the bytes written.
FileAt(filename, e) ==
    CASE filename = "combined.bin"       -> CombinedAt(e)
      [] filename = "z_voxel_coords.bin" -> e
      [] filename = "projections.bin"    ->
            ImageOf(KindOf(e \div (detector_rows * detector_columns)),
                    e % (detector_rows * detector_columns))
      [] filename = "transform.bin"      ->
            TransformOf(KindOf(e \div 12))[(e % 12) + 1]
      [] filename = "volumeweight.bin"   ->
            WeightOf(KindOf(e \div (num_voxels * num_voxels)),
                     e % (num_voxels * num_voxels))
      [] OTHER -> FloatAt(out_file, e * sizeof_float)

(***************************************************************************)
(* read_file (lines 34-66): the vector returned holds elements             *)
(* offset .. offset+size-1 of the file.  It is kept as the window read     *)
(* (a detector image has 49152 elements); At gives its k-th element.       *)
(***************************************************************************)
Args(n, offset, filename) ==
    [size |-> n, offset |-> offset, filename |-> filename]

\* Lines 45 and 60-65: the vector is created with size zeros, the return
\* codes of MPI_File_open, MPI_File_set_view and MPI_File_read_all are not
\* looked at, and the vector is returned.  After a failed open the reads
\* transfer nothing and the vector still holds its zeros.
read_file(n, offset, filename) ==
    IF filename \in unreadable
    THEN [size |-> n, offset |-> 0, filename |-> ""]
    ELSE Args(n, offset, filename)

\* A vector that was not filled from a file (filename "") holds zeros
At(data, k) ==
    IF data.filename = "" THEN 0 ELSE FileAt(data.filename, data.offset + k)

Empty == [size |-> 0, offset |-> 0, filename |-> ""]

(***************************************************************************)
(* The arguments of the read_file calls of load_global_data (lines         *)
(* 114-120) and load_projection_data (lines 139-150).                      *)
(***************************************************************************)
\* Faulty variant of ReadArgs: the transform is read at id * 3 instead of id * 3 * 4
ReadArgs_ShortTransformOffset(which, id) ==
    CASE which = "combined" ->
            Args(Mul32(Mul32(4, num_voxels), num_voxels), 0, "combined.bin")
      [] which = "z" ->
            Args(num_voxels, 0, "z_voxel_coords.bin")
      [] which = "projection" ->
            Args(Mul32(detector_rows, detector_columns),
                 Mul32(Mul32(id, detector_rows), detector_columns),
                 "projections.bin")
      [] which = "transform" ->
            Args(Mul32(3, 4), Mul32(id, 3), "transform.bin")
      [] which = "weight" ->
            Args(Mul32(num_voxels, num_voxels),
                 Mul32(Mul32(id, num_voxels), num_voxels),
                 "volumeweight.bin")

ReadArgs(which, id) ==
    CASE which = "combined" ->
            Args(Mul32(Mul32(4, num_voxels), num_voxels), 0, "combined.bin")
      [] which = "z" ->
            Args(num_voxels, 0, "z_voxel_coords.bin")
      [] which = "projection" ->
            Args(Mul32(detector_rows, detector_columns),
                 Mul32(Mul32(id, detector_rows), detector_columns),
                 "projections.bin")
      [] which = "transform" ->
            Args(Mul32(3, 4), Mul32(Mul32(id, 3), 4), "transform.bin")
      [] which = "weight" ->
            Args(Mul32(num_voxels, num_voxels),
                 Mul32(Mul32(id, num_voxels), num_voxels),
                 "volumeweight.bin")

(***************************************************************************)
(* The partition of the projections (lines 177-187).                       *)
(***************************************************************************)
\* Faulty variant of num_projections_l: the quotient is rounded up
num_projections_l_RoundedUp == (num_projections + mpi_size - 1) \div mpi_size

num_projections_l == num_projections \div mpi_size

start_id(rank) == rank * num_projections_l

\* Faulty variant of stop_id: the last rank does not take the remainder
stop_id_NoRemainder(rank) == (rank + 1) * num_projections_l

stop_id(rank) ==
    IF rank # mpi_size - 1
    THEN (rank + 1) * num_projections_l
    ELSE num_projections


(***************************************************************************)
(* The back-projection kernel (lines 201-227).                             *)
(***************************************************************************)
Abs(x) == IF x < 0 THEN -x ELSE x

\* Conversion to int32_t of a quotient with divisor 0 (inf or NaN): undefined
\* behaviour; the build yields the "integer indefinite" value, or saturates.
ConvertNonFinite(n) ==
    IF fp_convert = "indefinite" THEN INT32_MIN
    ELSE IF n = 0 THEN 0 ELSE IF n > 0 THEN INT32_MAX ELSE INT32_MIN

\* int32_t map = std::round(n / d): nearest integer, halves away from zero
\* (lines 213-214)
RoundDiv(n, d) ==
    IF d = 0 THEN ConvertNonFinite(n)
    ELSE LET q == (2 * Abs(n) + Abs(d)) \div (2 * Abs(d))
         IN  IF (n < 0) # (d < 0) THEN -q ELSE q

\* float combined_val (lines 206-207)
combined_val(g, z, i, j) ==
    IF j = 2 THEN At(g.z_voxel_coords, z)
             ELSE At(g.combined_matrix, j * size + i)

\* vol_det_map_0 / _1 / _2 for row = 0 / 1 / 2 (lines 204-211)
vol_det_map(g, p, z, i, row) ==
    LET term(j) == combined_val(g, z, i, j) * At(p.transform_matrix, j + 4 * row)
    IN  term(0) + term(1) + term(2) + term(3)

map_col(g, p, z, i) ==
    RoundDiv(vol_det_map(g, p, z, i, 0), vol_det_map(g, p, z, i, 2))

map_row(g, p, z, i) ==
    RoundDiv(vol_det_map(g, p, z, i, 1), vol_det_map(g, p, z, i, 2))

\* Faulty variant of InDetector: the upper bounds are tested with <=
InDetector_Inclusive(col, row) ==
    col >= 0 /\ row >= 0 /\ col <= detector_columns /\ row <= detector_rows

\* The mask of lines 218-219
InDetector(col, row) ==
    col >= 0 /\ row >= 0 /\ col < detector_columns /\ row < detector_rows

\* The index into pdata.projection (line 223)
PixelIndex(col, row) == col + row * detector_columns

\* Faulty variant of VolIndex: the slice offset is z instead of z * size
VolIndex_NoSliceStride(z, i) == z + i

\* The index into recon_volume (line 222)
VolIndex(z, i) == z * size + i

\* The value added at line 222-224
Contribution(g, p, z, i) ==
    At(p.projection, PixelIndex(map_col(g, p, z, i), map_row(g, p, z, i)))
        * At(p.volume_weight, i)

\* Faulty variant of Voxel: the product is assigned (=) instead of added (+=)
Voxel_Overwrite(g, p, vol, z, i) ==
    IF InDetector(map_col(g, p, z, i), map_row(g, p, z, i))
    THEN [vol EXCEPT ![VolIndex(z, i)] = Contribution(g, p, z, i)]
    ELSE vol

\* One iteration of the loop over i (lines 202-226) for voxel (z, i)
Voxel(g, p, vol, z, i) ==
    IF InDetector(map_col(g, p, z, i), map_row(g, p, z, i))
    THEN [vol EXCEPT ![VolIndex(z, i)] = @ + Contribution(g, p, z, i)]
    ELSE vol

RECURSIVE SliceLoop(_, _, _, _, _)
SliceLoop(g, p, vol, z, i) ==
    IF i >= size THEN vol
    ELSE SliceLoop(g, p, Voxel(g, p, vol, z, i), z, i + 1)

\* The loop over z (lines 201-227), the slices taken in order
RECURSIVE ZLoop(_, _, _, _)
ZLoop(g, p, vol, z) ==
    IF z >= num_voxels THEN vol
    ELSE ZLoop(g, p, SliceLoop(g, p, vol, z, 0), z + 1)

Zeros(n) == [e \in 0 .. (n - 1) |-> 0]

RECURSIVE SumTo(_, _)
SumTo(f, n) == IF n <= 0 THEN 0 ELSE f[n - 1] + SumTo(f, n - 1)

\* std::accumulate over the whole vector (lines 246-247)
Accumulate(v) == SumTo(v, Cardinality(DOMAIN v))

EmptyG == [combined_matrix |-> Empty, z_voxel_coords |-> Empty]
EmptyP == [projection |-> Empty, transform_matrix |-> Empty,
           volume_weight |-> Empty]

(***************************************************************************)
(* Initial state: MPI_Init and argument parsing done (lines 259-292),      *)
(* reconstruction() entered, recon_volume allocated zero (line 172).       *)
(***************************************************************************)
InitRun ==
    /\ mpi_size \in 1 .. MaxSize
    /\ num_projections \in 0 .. MaxProjections
    /\ num_voxels \in 1 .. MaxVoxels
    /\ output_filename \in {"", "out.bin"}
    /\ dataset \in Datasets
    /\ fp_convert \in {"indefinite", "saturate"}
    /\ pc = [r \in Ranks |-> "read"]
    /\ rd = [r \in Ranks |-> "combined"]
    /\ projection_id = [r \in Ranks |-> 0]
    /\ gdata = [r \in Ranks |-> EmptyG]
    /\ pdata = [r \in Ranks |-> EmptyP]
    /\ recon_volume = [r \in Ranks |-> Zeros(recon_volume_size)]
    /\ recon_volume_final = [r \in Ranks |-> <<>>]
    /\ calls = [r \in Ranks |-> <<>>]
    /\ reduce_in = {}
    /\ barrier_in = {}
    /\ out_file = <<>>
    /\ write_log = <<>>
    /\ report = [r \in Ranks |-> NoReport]
    /\ omp = [r \in Ranks |-> <<>>]

\* No round trip and no evaluation of the index arithmetic is under way
InitApart ==
    /\ rt = <<>>
    /\ arith = <<>>

\* The run with every input file in place
Init ==
    /\ InitRun
    /\ unreadable = {}
    /\ InitApart

(***************************************************************************)
(* read_file is collective (MPI_File_open on MPI_COMM_WORLD, line 60,      *)
(* MPI_File_read_all, line 62): the k-th call of a rank completes once     *)
(* every rank has issued its k-th call, on the same file.  The view        *)
(* (line 61) may differ between the ranks.  A call that some rank never    *)
(* matches does not return.                                                *)
(***************************************************************************)
Joined(r) ==
    LET k == Len(calls[r])
    IN  \A q \in Ranks :
            /\ Len(calls[q]) >= k
            /\ calls[q][k].filename = calls[r][k].filename

\* The loop test of line 189 with the loop variable at id
LoopTest(r, id) ==
    IF id < stop_id(r)
    THEN /\ pc' = [pc EXCEPT ![r] = "read"]
         /\ rd' = [rd EXCEPT ![r] = "projection"]
    ELSE /\ pc' = [pc EXCEPT ![r] = "reduce"]
         /\ rd' = rd

\* A rank enters read_file
ReadFileCall(r) ==
    /\ pc[r] = "read"
    /\ calls' = [calls EXCEPT ![r] = Append(@, ReadArgs(rd[r], projection_id[r]))]
    /\ pc' = [pc EXCEPT ![r] = "read_wait"]
    /\ UNCHANGED <<params, apart, rd, projection_id, gdata, pdata, recon_volume,
                   recon_volume_final, reduce_in, barrier_in, out_file,
                   write_log, report, omp>>

\* read_file returns its data to load_global_data / load_projection_data
ReadFileReturn(r) ==
    /\ pc[r] = "read_wait"
    /\ Joined(r)
    /\ LET call == calls[r][Len(calls[r])]
           data == read_file(call.size, call.offset, call.filename)
       IN  CASE rd[r] = "combined" ->
                  /\ gdata' = [gdata EXCEPT ![r].combined_matrix = data]
                  /\ rd' = [rd EXCEPT ![r] = "z"]
                  /\ pc' = [pc EXCEPT ![r] = "read"]
                  /\ UNCHANGED <<pdata, projection_id>>
             [] rd[r] = "z" ->
                  /\ gdata' = [gdata EXCEPT ![r].z_voxel_coords = data]
                  /\ projection_id' = [projection_id EXCEPT ![r] = start_id(r)]
                  /\ LoopTest(r, start_id(r))
                  /\ UNCHANGED pdata
             [] rd[r] = "projection" ->
                  /\ pdata' = [pdata EXCEPT ![r] = [EmptyP EXCEPT !.projection = data]]
                  /\ rd' = [rd EXCEPT ![r] = "transform"]
                  /\ pc' = [pc EXCEPT ![r] = "read"]
                  /\ UNCHANGED <<gdata, projection_id>>
             [] rd[r] = "transform" ->
                  /\ pdata' = [pdata EXCEPT ![r].transform_matrix = data]
                  /\ rd' = [rd EXCEPT ![r] = "weight"]
                  /\ pc' = [pc EXCEPT ![r] = "read"]
                  /\ UNCHANGED <<gdata, projection_id>>
             [] rd[r] = "weight" ->
                  /\ pdata' = [pdata EXCEPT ![r].volume_weight = data]
                  /\ pc' = [pc EXCEPT ![r] = "compute"]
                  /\ UNCHANGED <<gdata, projection_id, rd>>
    /\ UNCHANGED <<params, apart, recon_volume, recon_volume_final, calls, reduce_in,
                   barrier_in, out_file, write_log, report, omp>>

\* The parallel region of one projection and the loop increment (lines 200-230)
Compute(r) ==
    /\ pc[r] = "compute"
    /\ recon_volume' = [recon_volume EXCEPT
                           ![r] = ZLoop(gdata[r], pdata[r], @, 0)]
    /\ projection_id' = [projection_id EXCEPT ![r] = @ + 1]
    /\ pdata' = [pdata EXCEPT ![r] = EmptyP]
    /\ LoopTest(r, projection_id[r] + 1)
    /\ UNCHANGED <<params, apart, gdata, recon_volume_final, calls, reduce_in,
                   barrier_in, out_file, write_log, report, omp>>


RECURSIVE SumRanks(_, _)
SumRanks(e, n) == IF n <= 0 THEN 0 ELSE recon_volume[n - 1][e] + SumRanks(e, n - 1)

\* Faulty variant of ReduceSum: the root's own send buffer is left out of the sum
ReduceSum_WithoutRoot ==
    [e \in 0 .. (recon_volume_size - 1) |->
        SumRanks(e, mpi_size) - recon_volume[0][e]]

\* MPI_SUM over the send buffers of all ranks (line 234)
ReduceSum == [e \in 0 .. (recon_volume_size - 1) |-> SumRanks(e, mpi_size)]

\* A rank allocates recon_volume_final and enters MPI_Reduce (lines 232-235)
ReduceCall(r) ==
    /\ pc[r] = "reduce"
    /\ recon_volume_final' = [recon_volume_final EXCEPT
                                 ![r] = Zeros(recon_volume_size)]
    /\ reduce_in' = reduce_in \cup {r}
    /\ pc' = [pc EXCEPT ![r] = "reduce_wait"]
    /\ UNCHANGED <<params, apart, rd, projection_id, gdata, pdata, recon_volume,
                   calls, barrier_in, out_file, write_log, report, omp>>

\* Faulty variant of IsRoot: every rank receives the sum (MPI_Allreduce)
IsRoot_Every(r) == TRUE

\* The root argument of MPI_Reduce (line 234)
IsRoot(r) == r = 0

\* MPI_Reduce returns: at the root (rank 0) once every rank has contributed,
\* with the sum in the receive buffer; elsewhere once the send buffer is handed
\* over.  The rank then enters MPI_Barrier (line 236).
ReduceReturn(r) ==
    /\ pc[r] = "reduce_wait"
    /\ IsRoot(r) => reduce_in = Ranks
    /\ recon_volume_final' =
          IF IsRoot(r) THEN [recon_volume_final EXCEPT ![r] = ReduceSum]
                       ELSE recon_volume_final
    /\ barrier_in' = barrier_in \cup {r}
    /\ pc' = [pc EXCEPT ![r] = "barrier_wait"]
    /\ UNCHANGED <<params, apart, rd, projection_id, gdata, pdata, recon_volume,
                   calls, reduce_in, out_file, write_log, report, omp>>

\* Faulty variant of BarrierOpen: the barrier holds nobody back
BarrierOpen_NoWait == TRUE

\* MPI_Barrier lets a rank through once every rank has entered it
BarrierOpen == barrier_in = Ranks

BarrierReturn(r) ==
    /\ pc[r] = "barrier_wait"
    /\ BarrierOpen
    /\ pc' = [pc EXCEPT ![r] = "finalize"]
    /\ UNCHANGED <<params, apart, rd, projection_id, gdata, pdata, recon_volume,
                   recon_volume_final, calls, reduce_in, barrier_in, out_file,
                   write_log, report, omp>>

\* Faulty variant of write_file: seekp(offset), the offset taken as bytes
write_file_SeeksBytes(data, offset) ==
    LET n == Cardinality(DOMAIN data)
        start == offset
    IN  IF n = 0 THEN <<>>
        ELSE [b \in 0 .. (start + n * sizeof_float - 1) |->
                IF b < start THEN 0
                ELSE Bytes(data[(b - start) \div sizeof_float])
                          [((b - start) % sizeof_float) + 1]]

\* write_file (lines 74-82): the file is created or truncated (line 75), the
\* position moved to offset * sizeof(float) (line 79) and the bytes of data
\* written there (line 80); the bytes skipped read as zero.  Nothing written
\* leaves the file empty.
write_file(data, offset) ==
    LET n == Cardinality(DOMAIN data)
        start == offset * sizeof_float
    IN  IF n = 0 THEN <<>>
        ELSE [b \in 0 .. (start + n * sizeof_float - 1) |->
                IF b < start THEN 0
                ELSE Bytes(data[(b - start) \div sizeof_float])
                          [((b - start) % sizeof_float) + 1]]

\* Faulty variant of IsCoordinator: every rank takes the coordinator's branch
IsCoordinator_Any(r) == TRUE

\* The guard of line 237
IsCoordinator(r) == r = 0

\* The guard of line 239
HasOutput == output_filename # ""

\* Lines 237-254: the coordinator writes the volume, and prints the checksum
Finalize(r) ==
    /\ pc[r] = "finalize"
    /\ IF IsCoordinator(r)
       THEN /\ IF HasOutput
               THEN /\ out_file' = write_file(recon_volume_final[r], 0)
                    /\ write_log' = Append(write_log, <<r, 0, output_filename>>)
               ELSE UNCHANGED <<out_file, write_log>>
            /\ report' = [report EXCEPT ![r] = Append(@, Accumulate(recon_volume_final[r]))]
       ELSE UNCHANGED <<out_file, write_log, report>>
    /\ pc' = [pc EXCEPT ![r] = "done"]
    /\ UNCHANGED <<params, apart, rd, projection_id, gdata, pdata, recon_volume,
                   recon_volume_final, calls, reduce_in, barrier_in, omp>>

Next ==
    \/ \E r \in Ranks : ReadFileCall(r)
    \/ \E r \in Ranks : ReadFileReturn(r)
    \/ \E r \in Ranks : Compute(r)
    \/ \E r \in Ranks : ReduceCall(r)
    \/ \E r \in Ranks : ReduceReturn(r)
    \/ \E r \in Ranks : BarrierReturn(r)
    \/ \E r \in Ranks : Finalize(r)

Spec == Init /\ [][Next]_vars


(***************************************************************************)
(* The parallel region of lines 200-227 at the grain of its threads.  The  *)
(* iterations of the z loop are handed to the threads of the team, each    *)
(* iteration run by one thread; z, i, j and the vol_det_map values are     *)
(* private to the iteration, pdata, gdata and recon_volume are shared.     *)
(* The update of line 222 is a load of recon_volume[z * size + i] and a    *)
(* store to it.  A slice is "todo", at voxel i before the mask ("load"),   *)
(* at voxel i between load and store ("store"), or "done".  touched holds  *)
(* the elements of recon_volume a slice's iteration has accessed, pixels   *)
(* the indices into pdata.projection it has read.                          *)
(***************************************************************************)
Slices == 0 .. (num_voxels - 1)

Running(r) == {z \in Slices : omp[r].slice[z].state \in {"load", "store"}}

\* The team starts the loop (line 200)
OmpFork(r) ==
    /\ pc[r] = "compute"
    /\ \E n \in 1 .. MaxThreads :
          omp' = [omp EXCEPT ![r] =
                     [team    |-> n,
                      before  |-> recon_volume[r],
                      slice   |-> [z \in Slices |->
                                      [state |-> "todo", i |-> 0, tmp |-> 0]],
                      touched |-> [z \in Slices |-> {}],
                      pixels  |-> [z \in Slices |-> {}]]]
    /\ pc' = [pc EXCEPT ![r] = "omp"]
    /\ UNCHANGED <<params, apart, rd, projection_id, gdata, pdata, recon_volume,
                   recon_volume_final, calls, reduce_in, barrier_in, out_file,
                   write_log, report>>

\* A free thread of the team takes iteration z (line 201)
OmpStart(r, z) ==
    /\ pc[r] = "omp"
    /\ omp[r].slice[z].state = "todo"
    /\ Cardinality(Running(r)) < omp[r].team
    /\ omp' = [omp EXCEPT ![r].slice[z].state = "load"]
    /\ UNCHANGED <<params, apart, pc, rd, projection_id, gdata, pdata, recon_volume,
                   recon_volume_final, calls, reduce_in, barrier_in, out_file,
                   write_log, report>>

\* The slice record after voxel i: the next voxel, or the end of the slice
\* (line 202)
AfterVoxel(s) ==
    IF s.i + 1 < size
    THEN [state |-> "load", i |-> s.i + 1, tmp |-> 0]
    ELSE [state |-> "done", i |-> s.i, tmp |-> 0]

\* Faulty variant of OmpLoad: the accumulator is loaded from slice 0
OmpLoad_FromSliceZero(r, z) ==
    /\ pc[r] = "omp"
    /\ omp[r].slice[z].state = "load"
    /\ LET s   == omp[r].slice[z]
           col == map_col(gdata[r], pdata[r], z, s.i)
           row == map_row(gdata[r], pdata[r], z, s.i)
       IN  IF InDetector(col, row)
           THEN omp' = [omp EXCEPT
                           ![r].slice[z] =
                               [state |-> "store", i |-> s.i,
                                tmp |-> recon_volume[r][VolIndex(0, s.i)]],
                           ![r].touched[z] = @ \cup {VolIndex(z, s.i)},
                           ![r].pixels[z] = @ \cup {PixelIndex(col, row)}]
           ELSE omp' = [omp EXCEPT ![r].slice[z] = AfterVoxel(s)]
    /\ UNCHANGED <<params, apart, pc, rd, projection_id, gdata, pdata, recon_volume,
                   recon_volume_final, calls, reduce_in, barrier_in, out_file,
                   write_log, report>>

\* Lines 204-222 for voxel (z, i): the mapping, the mask and, inside the
\* detector, the load of the accumulator
OmpLoad(r, z) ==
    /\ pc[r] = "omp"
    /\ omp[r].slice[z].state = "load"
    /\ LET s   == omp[r].slice[z]
           col == map_col(gdata[r], pdata[r], z, s.i)
           row == map_row(gdata[r], pdata[r], z, s.i)
       IN  IF InDetector(col, row)
           THEN omp' = [omp EXCEPT
                           ![r].slice[z] =
                               [state |-> "store", i |-> s.i,
                                tmp |-> recon_volume[r][VolIndex(z, s.i)]],
                           ![r].touched[z] = @ \cup {VolIndex(z, s.i)},
                           ![r].pixels[z] = @ \cup {PixelIndex(col, row)}]
           ELSE omp' = [omp EXCEPT ![r].slice[z] = AfterVoxel(s)]
    /\ UNCHANGED <<params, apart, pc, rd, projection_id, gdata, pdata, recon_volume,
                   recon_volume_final, calls, reduce_in, barrier_in, out_file,
                   write_log, report>>

\* Faulty variant of OmpStore: the store also moves the weight vector on by
\* one element
OmpStore_MovesWeight(r, z) ==
    /\ pc[r] = "omp"
    /\ omp[r].slice[z].state = "store"
    /\ LET s == omp[r].slice[z]
       IN  /\ recon_volume' = [recon_volume EXCEPT
                  ![r][VolIndex(z, s.i)] =
                      s.tmp + Contribution(gdata[r], pdata[r], z, s.i)]
           /\ omp' = [omp EXCEPT ![r].slice[z] = AfterVoxel(s)]
    /\ pdata' = [pdata EXCEPT ![r].volume_weight.offset = @ + 1]
    /\ UNCHANGED <<params, apart, pc, rd, projection_id, gdata,
                   recon_volume_final, calls, reduce_in, barrier_in, out_file,
                   write_log, report>>

\* Lines 222-224 for voxel (z, i): the store of the sum
OmpStore(r, z) ==
    /\ pc[r] = "omp"
    /\ omp[r].slice[z].state = "store"
    /\ LET s == omp[r].slice[z]
       IN  /\ recon_volume' = [recon_volume EXCEPT
                  ![r][VolIndex(z, s.i)] =
                      s.tmp + Contribution(gdata[r], pdata[r], z, s.i)]
           /\ omp' = [omp EXCEPT ![r].slice[z] = AfterVoxel(s)]
    /\ UNCHANGED <<params, apart, pc, rd, projection_id, gdata, pdata,
                   recon_volume_final, calls, reduce_in, barrier_in, out_file,
                   write_log, report>>

\* The end of the loop (its implied barrier) and the loop increment of line 190
OmpJoin(r) ==
    /\ pc[r] = "omp"
    /\ \A z \in Slices : omp[r].slice[z].state = "done"
    /\ omp' = [omp EXCEPT ![r] = <<>>]
    /\ projection_id' = [projection_id EXCEPT ![r] = @ + 1]
    /\ pdata' = [pdata EXCEPT ![r] = EmptyP]
    /\ LoopTest(r, projection_id[r] + 1)
    /\ UNCHANGED <<params, apart, gdata, recon_volume, recon_volume_final, calls,
                   reduce_in, barrier_in, out_file, write_log, report>>

\* A run of one rank over one or two projections with an output path, its
\* parallel regions at the grain of the threads
InitOmp ==
    /\ Init
    /\ mpi_size = 1
    /\ num_projections \in {1, 2}
    /\ output_filename # ""

NextOmp ==
    \/ \E r \in Ranks : ReadFileCall(r)
    \/ \E r \in Ranks : ReadFileReturn(r)
    \/ \E r \in Ranks : OmpFork(r)
    \/ \E r \in Ranks : \E z \in Slices : OmpStart(r, z)
    \/ \E r \in Ranks : \E z \in Slices : OmpLoad(r, z)
    \/ \E r \in Ranks : \E z \in Slices : OmpStore(r, z)
    \/ \E r \in Ranks : OmpJoin(r)
    \/ \E r \in Ranks : ReduceCall(r)
    \/ \E r \in Ranks : ReduceReturn(r)
    \/ \E r \in Ranks : BarrierReturn(r)
    \/ \E r \in Ranks : Finalize(r)

SpecOmp == InitOmp /\ [][NextOmp]_vars

(***************************************************************************)
(* Fairness: every rank is a process of its own and takes its next step    *)
(* whenever it stays enabled.                                              *)
(***************************************************************************)
RankNext(r) ==
    /\ r \in Ranks
    /\ \/ ReadFileCall(r)
       \/ ReadFileReturn(r)
       \/ Compute(r)
       \/ ReduceCall(r)
       \/ ReduceReturn(r)
       \/ BarrierReturn(r)
       \/ Finalize(r)

FairSpec == Spec /\ \A r \in 0 .. (MaxSize - 1) : WF_vars(RankNext(r))

(***************************************************************************)
(* Runs in which one input file cannot be opened for reading.  The file    *)
(* system is shared: MPI_File_open (line 60) fails on every rank.  The     *)
(* default error handler of files is MPI_ERRORS_RETURN, and read_file      *)
(* does not look at the codes returned: it goes on with the handle the     *)
(* failed open left.  Using that handle is erroneous: the calls on it      *)
(* either return an error code themselves, and read_file returns its       *)
(* zeros, or the process faults.                                           *)
(***************************************************************************)
InputFiles == {"combined.bin", "z_voxel_coords.bin", "projections.bin",
               "transform.bin", "volumeweight.bin"}

\* The process faults in read_file on the handle of the failed open
ReadFileFault(r) ==
    /\ pc[r] = "read_wait"
    /\ Joined(r)
    /\ calls[r][Len(calls[r])].filename \in unreadable
    /\ pc' = [pc EXCEPT ![r] = "aborted"]
    /\ UNCHANGED <<params, apart, rd, projection_id, gdata, pdata, recon_volume,
                   recon_volume_final, calls, reduce_in, barrier_in, out_file,
                   write_log, report, omp>>

InitIO ==
    /\ InitRun
    /\ unreadable \in {{f} : f \in InputFiles}
    /\ InitApart

NextIO ==
    \/ Next
    \/ \E r \in Ranks : ReadFileFault(r)

SpecIO == InitIO /\ [][NextIO]_vars

(***************************************************************************)
(* write_file and read_file called on their own, by one process: a vector  *)
(* is written to the output file at an element offset and the same number  *)
(* of elements read back from that offset.                                 *)
(***************************************************************************)
MaxLen == 2
MaxOffset == 2

FloatValues == {0, 1, -2, 70000}

Vectors == UNION {[0 .. (n - 1) -> FloatValues] : n \in 0 .. MaxLen}

RoundTripWrite ==
    /\ rt # <<>>
    /\ rt.step = "start"
    /\ out_file' = write_file(rt.data, rt.offset)
    /\ write_log' = Append(write_log, <<0, rt.offset, output_filename>>)
    /\ rt' = [rt EXCEPT !.step = "written"]
    /\ UNCHANGED <<params, arith, pc, rd, projection_id, gdata, pdata,
                   recon_volume, recon_volume_final, calls, reduce_in,
                   barrier_in, report, omp>>

RoundTripRead ==
    /\ rt # <<>>
    /\ rt.step = "written"
    /\ LET n    == Cardinality(DOMAIN rt.data)
           data == read_file(n, rt.offset, output_filename)
       IN  rt' = [rt EXCEPT !.step = "read",
                            !.result = [k \in 0 .. (n - 1) |-> At(data, k)]]
    /\ UNCHANGED <<params, arith, pc, rd, projection_id, gdata, pdata,
                   recon_volume, recon_volume_final, calls, reduce_in,
                   barrier_in, out_file, write_log, report, omp>>

InitRT ==
    /\ InitRun
    /\ mpi_size = 1
    /\ num_projections = 0
    /\ num_voxels = 1
    /\ output_filename = "out.bin"
    /\ dataset = 0
    /\ fp_convert = "indefinite"
    /\ unreadable = {}
    /\ arith = <<>>
    /\ rt \in [data : Vectors, offset : 0 .. MaxOffset, step : {"start"},
                result : {<<>>}]

NextRT ==
    \/ RoundTripWrite
    \/ RoundTripRead

SpecRT == InitRT /\ [][NextRT]_vars

(***************************************************************************)
(* The index arithmetic on its own, for voxel counts of any size: the      *)
(* counts and offsets load_global_data and load_projection_data hand to    *)
(* read_file, and the element count of the volume.  Each is an int         *)
(* expression converted to uint64_t (the parameters of read_file, line     *)
(* 34; recon_volume_size, line 170).  A uint64_t is kept as its digits to  *)
(* the base Limb, lowest first, without leading zeros.                     *)
(***************************************************************************)
RECURSIVE BigOf(_)
BigOf(n) == IF n = 0 THEN <<>> ELSE <<n % Limb>> \o BigOf(n \div Limb)

\* int -> uint64_t: a negative value is sign-extended to 64 bits
Widen(r) ==
    IF r < 0
    THEN << r % Limb, (r \div Limb) % Limb, (r \div (Limb * Limb)) % Limb,
            Limb - 1, 15 >>
    ELSE BigOf(r)

VoxelCounts == {1, 2, 256, 1290, 1291, 2048, 2594, 2595, 23170, 23171}

ProjectionIds == {0, 1, 160, 319}

Evaluated == {"combined", "z", "volume", "projection", "transform", "weight"}

Evaluate(which) ==
    /\ arith # <<>>
    /\ which \notin arith.done
    /\ LET a == ReadArgs(which, arith.id)
           value == IF which = "volume"
                    THEN [size |-> Widen(recon_volume_size), offset |-> <<>>]
                    ELSE [size |-> Widen(a.size), offset |-> Widen(a.offset)]
       IN  arith' = [arith EXCEPT !.done = @ \cup {which},
                                  !.values[which] = value]
    /\ UNCHANGED <<params, rt, pc, rd, projection_id, gdata, pdata,
                   recon_volume, recon_volume_final, calls, reduce_in,
                   barrier_in, out_file, write_log, report, omp>>

\* One process in reconstruction(), num_projections as built (line 20), the
\* volume not yet allocated
InitArith ==
    /\ mpi_size = 1
    /\ num_projections = 320
    /\ num_voxels \in VoxelCounts
    /\ output_filename = ""
    /\ dataset = 0
    /\ fp_convert = "indefinite"
    /\ unreadable = {}
    /\ pc = [r \in Ranks |-> "read"]
    /\ rd = [r \in Ranks |-> "combined"]
    /\ projection_id = [r \in Ranks |-> 0]
    /\ gdata = [r \in Ranks |-> EmptyG]
    /\ pdata = [r \in Ranks |-> EmptyP]
    /\ recon_volume = [r \in Ranks |-> <<>>]
    /\ recon_volume_final = [r \in Ranks |-> <<>>]
    /\ calls = [r \in Ranks |-> <<>>]
    /\ reduce_in = {}
    /\ barrier_in = {}
    /\ out_file = <<>>
    /\ write_log = <<>>
    /\ report = [r \in Ranks |-> NoReport]
    /\ omp = [r \in Ranks |-> <<>>]
    /\ rt = <<>>
    /\ \E id \in ProjectionIds :
           arith = [id |-> id, done |-> {},
                    values |-> [w \in Evaluated |->
                                   [size |-> <<>>, offset |-> <<>>]]]

NextArith == \E which \in Evaluated : Evaluate(which)

SpecArith == InitArith /\ [][NextArith]_vars

(***************************************************************************)
(* Claims                                                                  *)
(***************************************************************************)
Min(a, b) == IF a <= b THEN a ELSE b

\* The floats a file of bytes holds
Floats(file) ==
    [e \in 0 .. ((Cardinality(DOMAIN file) \div sizeof_float) - 1) |->
        FloatAt(file, e * sizeof_float)]

\* The ranks whose range [start_id, stop_id) holds projection id
OwnersOf(id) == {r \in Ranks : start_id(r) <= id /\ id < stop_id(r)}

RECURSIVE RangeLengths(_)
RangeLengths(n) ==
    IF n <= 0 THEN 0
    ELSE (stop_id(n - 1) - start_id(n - 1)) + RangeLengths(n - 1)

\* C1: for every projection count and group size the ranges [start_id, stop_id)
\* of ranks 0..S-1 tile [0,P): every projection id lies in the range of exactly
\* one rank, and the range lengths sum to P.
C1_RangesTile ==
    /\ \A id \in 0 .. (num_projections - 1) : Cardinality(OwnersOf(id)) = 1
    /\ \A r \in Ranks : start_id(r) <= stop_id(r)
    /\ RangeLengths(mpi_size) = num_projections

\* C1 witness: with a count the group size does not divide, the last rank has
\* reached a projection of the remainder.
C1_Witness ==
    /\ mpi_size > 1
    /\ num_projections % mpi_size # 0
    /\ \E r \in Ranks :
          /\ pc[r] = "read_wait"
          /\ rd[r] = "projection"
          /\ projection_id[r] >= mpi_size * num_projections_l

ReadOwner(r, k) == start_id(r) + ((k - 3) \div 3)

ReadStride(k) ==
    CASE (k - 3) % 3 = 0 -> detector_rows * detector_columns
      [] (k - 3) % 3 = 1 -> 12
      [] OTHER           -> num_voxels * num_voxels

C3_ReadsJoinedByAll ==
    \A r \in Ranks : \A q \in Ranks :
        (pc[r] \in {"read", "read_wait"} /\ q \in reduce_in) =>
            Len(calls[q]) >= Len(calls[r]) + (IF pc[r] = "read" THEN 1 ELSE 0)


AllDone == \A r \in Ranks : pc[r] = "done"

\* C4: under fair scheduling every rank eventually finishes its projections,
\* completes the reduction and passes the barrier, and the coordinator
\* eventually reports the checksum.
C4_Terminates == <>(AllDone /\ report[0] # NoReport)

\* What one process reads for projection id, and the volume it computes when
\* it handles projections 0 .. num_projections-1 itself (mpi_size = 1)
GlobalRead ==
    [combined_matrix |-> ReadArgs("combined", 0),
     z_voxel_coords  |-> ReadArgs("z", 0)]

ProjectionRead(id) ==
    [projection       |-> ReadArgs("projection", id),
     transform_matrix |-> ReadArgs("transform", id),
     volume_weight    |-> ReadArgs("weight", id)]

RECURSIVE ProjectionLoop(_, _)
ProjectionLoop(vol, id) ==
    IF id >= num_projections THEN vol
    ELSE ProjectionLoop(ZLoop(GlobalRead, ProjectionRead(id), vol, 0), id + 1)

SingleRankVolume == ProjectionLoop(Zeros(recon_volume_size), 0)

\* C5: the final volume and the checksum delivered to the coordinator by a run
\* with group size S equal those of a run with one rank on the same input.
C5_SameAsSingleRank ==
    pc[0] = "done" =>
        /\ recon_volume_final[0] = SingleRankVolume
        /\ report[0] = <<Accumulate(SingleRankVolume)>>
        /\ HasOutput => Floats(out_file) = SingleRankVolume

\* C5 witness: a run of several ranks, each with projections of its own, has
\* delivered a volume that is not all zero.
C5_Witness ==
    /\ mpi_size > 1
    /\ num_projections >= mpi_size
    /\ pc[0] = "done"
    /\ report[0][1] > 0

\* The data of projection id at the places the files hold it
ProjectionAt(id) ==
    [projection       |-> [size |-> detector_rows * detector_columns,
                           offset |-> id * detector_rows * detector_columns,
                           filename |-> "projections.bin"],
     transform_matrix |-> [size |-> 12, offset |-> id * 12,
                           filename |-> "transform.bin"],
     volume_weight    |-> [size |-> num_voxels * num_voxels,
                           offset |-> id * num_voxels * num_voxels,
                           filename |-> "volumeweight.bin"]]

GlobalAt ==
    [combined_matrix |-> [size |-> 4 * num_voxels * num_voxels, offset |-> 0,
                          filename |-> "combined.bin"],
     z_voxel_coords  |-> [size |-> num_voxels, offset |-> 0,
                          filename |-> "z_voxel_coords.bin"]]

\* What projection id adds to voxel (z, i): the pixel its candidate names
\* times the weight of column i when the candidate is inside the detector
Added(id, z, i) ==
    LET col == map_col(GlobalAt, ProjectionAt(id), z, i)
        row == map_row(GlobalAt, ProjectionAt(id), z, i)
    IN  IF 0 <= col /\ col < detector_columns /\ 0 <= row /\ row < detector_rows
        THEN FileAt("projections.bin",
                    id * detector_rows * detector_columns
                        + col + row * detector_columns)
                 * FileAt("volumeweight.bin", id * num_voxels * num_voxels + i)
        ELSE 0

RECURSIVE AddedUpTo(_, _, _)
AddedUpTo(n, z, i) ==
    IF n <= 0 THEN 0 ELSE Added(n - 1, z, i) + AddedUpTo(n - 1, z, i)

\* C8: after a completed run every element final[z*V^2+i] at the coordinator is
\* the sum over all projections p in [0,P) with the candidate of (z,i) inside
\* the detector of projection_p[col + row*detector_columns] * volume_weight_p[i],
\* each projection counted once, and the checksum reported is the sum of the
\* V^3 elements (V = 2 and one projection mapping all voxels to pixel (0,0)
\* with value 5 and weight 1: eight 5s, checksum 40).
C8_FinalIsSumOfContributions ==
    pc[0] = "done" =>
        /\ DOMAIN recon_volume_final[0] =
              0 .. (num_voxels * num_voxels * num_voxels - 1)
        /\ \A z \in 0 .. (num_voxels - 1) :
              \A i \in 0 .. (num_voxels * num_voxels - 1) :
                 recon_volume_final[0][z * num_voxels * num_voxels + i]
                     = AddedUpTo(num_projections, z, i)
        /\ report[0] = << SumTo(recon_volume_final[0],
                                num_voxels * num_voxels * num_voxels) >>
        /\ (num_voxels = 2 /\ num_projections = 1 /\ KindOf(0) = "origin") =>
              /\ recon_volume_final[0] = [e \in 0 .. 7 |-> 5]
              /\ report[0] = <<40>>

\* C8 witness: the run of the example has completed with checksum 40.
C8_Witness ==
    /\ num_voxels = 2
    /\ num_projections = 1
    /\ KindOf(0) = "origin"
    /\ pc[0] = "done"
    /\ report[0] = <<40>>

RECURSIVE LocalSum(_, _)
LocalSum(e, n) == IF n <= 0 THEN 0 ELSE recon_volume[n - 1][e] + LocalSum(e, n - 1)

\* C9: no rank is past the barrier before every rank has finished accumulating
\* its assigned projections and has entered the reduction; the coordinator
\* writes and reports only what the reduction made of the complete local
\* volumes of all ranks.
C9_BarrierAfterAllReduced ==
    /\ \A r \in Ranks :
          pc[r] \in {"finalize", "done"} =>
              \A q \in Ranks :
                  /\ q \in reduce_in
                  /\ projection_id[q] = stop_id(q)
                  /\ pc[q] \in {"reduce_wait", "barrier_wait", "finalize", "done"}
    /\ (Len(write_log) > 0 \/ report[0] # NoReport) =>
          /\ \A q \in Ranks : projection_id[q] = stop_id(q)
          /\ \A e \in DOMAIN recon_volume[0] :
                recon_volume_final[0][e] = LocalSum(e, mpi_size)
          /\ Len(write_log) > 0 => Floats(out_file) = recon_volume_final[0]

\* C9 witness: one rank of several is through the barrier and has finished
\* while another is still held in it.
C9_Witness ==
    /\ mpi_size > 1
    /\ num_projections >= mpi_size
    /\ \E r \in Ranks : \E q \in Ranks :
          pc[r] = "done" /\ pc[q] = "barrier_wait"

\* C10: write_file is called by rank 0 only, at most once, once when an output
\* path was given and never when it is empty; no other rank writes, sums or
\* reports after the barrier.
C10_OnlyCoordinatorWrites ==
    /\ Len(write_log) <= 1
    /\ \A k \in 1 .. Len(write_log) : write_log[k][1] = 0
    /\ pc[0] = "done" =>
          Len(write_log) = (IF output_filename = "" THEN 0 ELSE 1)
    /\ output_filename = "" => (write_log = <<>> /\ out_file = <<>>)
    /\ \A r \in Ranks \ {0} : report[r] = NoReport

\* C10 witness: a run of several ranks with an output path has finished on
\* every rank, with one write.
C10_Witness ==
    /\ mpi_size > 1
    /\ AllDone
    /\ output_filename # ""
    /\ Len(write_log) = 1


\* The elements of slice z of the volume
SliceRange(z) ==
    (z * num_voxels * num_voxels) .. (z * num_voxels * num_voxels
                                        + num_voxels * num_voxels - 1)

\* C6: inside the parallel region the worker handling slice z accesses only
\* volume[z*V^2 .. z*V^2+V^2), so no two workers ever read-modify-write the
\* same element of recon_volume, whatever the assignment of slices to workers
\* and the interleaving.
C6_SlicesDisjoint ==
    \A r \in Ranks :
        pc[r] = "omp" =>
            /\ \A z \in Slices : omp[r].touched[z] \subseteq SliceRange(z)
            /\ \A y \in Slices : \A z \in Slices :
                  y # z => omp[r].touched[y] \cap omp[r].touched[z] = {}

\* C6 witness: two workers are both between the load and the store of an
\* element of their slices.
C6_Witness ==
    \E r \in Ranks :
        /\ pc[r] = "omp"
        /\ \E y \in Slices : \E z \in Slices :
              /\ y # z
              /\ omp[r].slice[y].state = "store"
              /\ omp[r].slice[z].state = "store"

\* Voxel (z, i) of rank r's parallel region has been handled: it is the
\* voxel the iteration of slice z has just left, or the region is at its end
Handled(r, z, i) ==
    \/ \A y \in Slices : omp[r].slice[y].state = "done"
    \/ omp[r].slice[z].state = "load" /\ i + 1 = omp[r].slice[z].i

\* C7: for every voxel (z,i) and every projection the accumulator
\* volume[z*V^2+i] is updated by the projection if and only if the rounded
\* candidate has 0 <= col < detector_columns and 0 <= row < detector_rows, and
\* then by projection[col + row*detector_columns] * volume_weight[i]; the
\* candidate (detector_columns-1, detector_rows-1) contributes, (detector_columns,
\* 0) and negative coordinates contribute nothing, and every index read from
\* the projection lies in [0, detector_rows*detector_columns).
C7_MaskedByDetectorBounds ==
    \A r \in Ranks :
        pc[r] = "omp" =>
            /\ \A z \in Slices :
                  omp[r].pixels[z] \subseteq
                      0 .. (detector_rows * detector_columns - 1)
            /\ \A z \in Slices : \A i \in 0 .. (num_voxels * num_voxels - 1) :
                  Handled(r, z, i) =>
                    LET id  == projection_id[r]
                        col == map_col(GlobalAt, ProjectionAt(id), z, i)
                        row == map_row(GlobalAt, ProjectionAt(id), z, i)
                        e   == z * num_voxels * num_voxels + i
                        inside == /\ 0 <= col /\ col < detector_columns
                                  /\ 0 <= row /\ row < detector_rows
                    IN  /\ (e \in omp[r].touched[z]) <=> inside
                        /\ recon_volume[r][e] = omp[r].before[e] + Added(id, z, i)
                        /\ inside => (col + row * detector_columns)
                                         \in omp[r].pixels[z]
                        /\ (col = detector_columns - 1 /\ row = detector_rows - 1)
                              => e \in omp[r].touched[z]
                        /\ (col = detector_columns /\ row = 0)
                              => recon_volume[r][e] = omp[r].before[e]
                        /\ (col < 0 \/ row < 0)
                              => recon_volume[r][e] = omp[r].before[e]
                        /\ KindOf(id) = "corner" =>
                              (col = detector_columns - 1 /\ row = detector_rows - 1)
                        /\ KindOf(id) = "pastcol" =>
                              (col = detector_columns /\ row = 0)

\* C7 witness: the end of the region of a projection whose candidates fall
\* inside the detector for some voxels and at a negative column for others.
C7_Witness ==
    \E r \in Ranks :
        /\ pc[r] = "omp"
        /\ KindOf(projection_id[r]) = "negative"
        /\ \A y \in Slices : omp[r].slice[y].state = "done"
        /\ \E z \in Slices :
              /\ omp[r].touched[z] # {}
              /\ \E i \in 0 .. (num_voxels * num_voxels - 1) :
                    map_col(gdata[r], pdata[r], z, i) < 0


\* A read_file call of rank r on a file that cannot be opened
FailedCalls(r) ==
    {k \in 1 .. Len(calls[r]) : calls[r][k].filename \in unreadable}

\* C11: when an input file cannot be opened for reading the read fails and the
\* run aborts: the reader does not return data from that call (the rank never
\* gets past it), so no accumulation uses such data, no output file is written
\* and no checksum is reported.
C11_UnopenedFileAborts ==
    /\ \A r \in Ranks : \A k \in FailedCalls(r) :
            /\ k = Len(calls[r])
            /\ pc[r] \in {"read_wait", "aborted"}
    /\ (\E r \in Ranks : FailedCalls(r) # {}) =>
            /\ write_log = <<>>
            /\ \A r \in Ranks : report[r] = NoReport

\* C12: for every vector of n floats and every element offset o, writing the
\* vector to a file with write_file at offset o and then reading n elements at
\* offset o from that file with read_file returns exactly the values written.
C12_RoundTrip ==
    (rt # <<>> /\ rt.step = "read") => rt.result = rt.data

\* C12 witness: a vector of the longest length with differing elements has been
\* written at an offset above 0 and read back.
C12_Witness ==
    /\ rt # <<>>
    /\ rt.step = "read"
    /\ rt.offset > 0
    /\ Cardinality(DOMAIN rt.data) = MaxLen
    /\ rt.data[0] = -2
    /\ rt.data[1] = 70000

\* floor(P / S), by its defining inequalities
FloorQuotient ==
    CHOOSE q \in 0 .. num_projections :
        q * mpi_size <= num_projections /\ num_projections < (q + 1) * mpi_size

\* The projection ids of the transform reads rank r has issued, in order
RECURSIVE IdsRead(_, _)
IdsRead(r, k) ==
    IF k = 0 THEN <<>>
    ELSE IF calls[r][k].filename = "transform.bin"
         THEN Append(IdsRead(r, k - 1), calls[r][k].offset \div 12)
         ELSE IdsRead(r, k - 1)

\* C13: with q = floor(P/S), every rank r < S-1 is assigned exactly
\* [r*q, (r+1)*q) and rank S-1 exactly [(S-1)*q, P), of length P - (S-1)*q; the
\* ranges are contiguous and their start ids non-decreasing in the rank; with
\* S > P every rank but the last has an empty range.  The ids a rank loads are
\* those of its range, in order from its start id.
C13_PartitionClosedForm ==
    LET q    == FloorQuotient
        last == mpi_size - 1
    IN  /\ \A r \in Ranks :
               /\ start_id(r) = r * q
               /\ stop_id(r) = IF r < last THEN (r + 1) * q ELSE num_projections
        /\ stop_id(last) - start_id(last) = num_projections - last * q
        /\ \A r \in 0 .. (last - 1) :
               /\ stop_id(r) = start_id(r + 1)
               /\ start_id(r) <= start_id(r + 1)
        /\ mpi_size > num_projections =>
               \A r \in 0 .. (last - 1) : start_id(r) = stop_id(r)
        /\ \A r \in Ranks :
               LET ids == IdsRead(r, Len(calls[r]))
               IN  \A n \in 1 .. Len(ids) :
                       /\ ids[n] = r * q + (n - 1)
                       /\ ids[n] < (IF r < last THEN (r + 1) * q
                                                ELSE num_projections)

\* C13 witness: two ranks and three projections: rank 0 has loaded projection
\* 0, all of its range, and rank 1 has loaded projection 1 and gone on to 2.
C13_Witness ==
    /\ mpi_size = 2
    /\ num_projections = 3
    /\ IdsRead(0, Len(calls[0])) = <<0>>
    /\ pc[0] = "reduce_wait"
    /\ IdsRead(1, Len(calls[1])) = <<1>>
    /\ projection_id[1] = 2
    /\ calls[1][Len(calls[1])].filename = "projections.bin"

\* The product of a number given by its digits and a factor below Limb
RECURSIVE TimesCarry(_, _, _)
TimesCarry(big, m, carry) ==
    IF big = <<>> THEN BigOf(carry)
    ELSE LET t == Head(big) * m + carry
         IN  <<t % Limb>> \o TimesCarry(Tail(big), m, t \div Limb)

Times(big, m) == IF m = 0 THEN <<>> ELSE TimesCarry(big, m, 0)

\* The mathematical count and offset of each read, and the size of the volume
Exact(which, id) ==
    CASE which = "combined" ->
            [size   |-> Times(Times(BigOf(4), num_voxels), num_voxels),
             offset |-> <<>>]
      [] which = "z" ->
            [size |-> BigOf(num_voxels), offset |-> <<>>]
      [] which = "volume" ->
            [size   |-> Times(Times(BigOf(num_voxels), num_voxels), num_voxels),
             offset |-> <<>>]
      [] which = "projection" ->
            [size   |-> Times(BigOf(detector_rows), detector_columns),
             offset |-> Times(Times(BigOf(id), detector_rows), detector_columns)]
      [] which = "transform" ->
            [size |-> BigOf(12), offset |-> Times(BigOf(id), 12)]
      [] which = "weight" ->
            [size   |-> Times(BigOf(num_voxels), num_voxels),
             offset |-> Times(Times(BigOf(id), num_voxels), num_voxels)]

\* C14: for every projection id in [0,P) and every positive voxel count V the
\* offsets and counts handed to read_file equal their mathematical values
\* (image offset id*rows*columns, transform offset id*12, weight count V^2 at
\* offset id*V^2, combined count 4*V^2) and the volume has exactly V^3
\* elements: no product evaluated in 32-bit int wraps before it is widened.
C14_IndexArithmeticExact ==
    arith # <<>> =>
        \A which \in arith.done : arith.values[which] = Exact(which, arith.id)

\* The positions of a rank from MPI_Reduce on, and after MPI_Reduce
FromReduce == {"reduce", "reduce_wait", "barrier_wait", "finalize", "done"}
AfterReduce == {"barrier_wait", "finalize", "done"}

\* Rank r takes the step
Steps(r) == pc'[r] # pc[r] \/ projection_id'[r] # projection_id[r]

\* C15: the sum-reduction delivers the combined volume to rank 0 only and
\* changes nothing else: the final buffer of every rank other than 0 is all
\* zeros after it, the local volume of every rank is as it was before the
\* reduction, and no rank ever modifies the local volume of another rank.
C15_ReductionFrame ==
    [][\A r \in Ranks :
          /\ pc'[r] \in AfterReduce =>
                 recon_volume_final'[r] =
                     IF r = 0 THEN ReduceSum' ELSE Zeros(recon_volume_size)
          /\ pc[r] \in FromReduce => recon_volume'[r] = recon_volume[r]
          /\ Steps(r) =>
                 \A q \in Ranks \ {r} : recon_volume'[q] = recon_volume[q]
          /\ recon_volume'[r] # recon_volume[r] => Steps(r)]_vars

\* C15 witness: a run of two ranks or more has ended; rank 1 holds a local
\* volume that is not zero, and the sum at rank 0 is not zero.
C15_Witness ==
    /\ mpi_size >= 2
    /\ \A r \in Ranks : pc[r] = "done"
    /\ recon_volume[1] # Zeros(recon_volume_size)
    /\ recon_volume_final[0] # Zeros(recon_volume_size)
    /\ recon_volume_final[1] = Zeros(recon_volume_size)

\* The files of load_global_data
GlobalFiles == {"combined.bin", "z_voxel_coords.bin"}

\* C16: the parallel region leaves combined_matrix, z_voxel_coords, projection,
\* transform_matrix and volume_weight as they were when it began; the global
\* geometry is loaded once per rank, before the projection loop, and never
\* modified for the rest of the run.
C16_InputsUnchanged ==
    [][\A r \in Ranks :
          /\ pc[r] \in {"compute", "omp"} => gdata'[r] = gdata[r]
          /\ (pc[r] \in {"compute", "omp"} /\ pc'[r] = "omp") =>
                 pdata'[r] = pdata[r]
          /\ gdata[r].combined_matrix # Empty =>
                 gdata'[r].combined_matrix = gdata[r].combined_matrix
          /\ gdata[r].z_voxel_coords # Empty => gdata'[r] = gdata[r]
          /\ \A k \in 1 .. Len(calls'[r]) :
                 calls'[r][k].filename \in GlobalFiles <=> k <= 2]_vars

\* C16 witness: the region of the second projection is at its end, with
\* products added to the volume, the inputs as they were loaded.
C16_Witness ==
    /\ pc[0] = "omp"
    /\ projection_id[0] = 1
    /\ \A z \in Slices : omp[0].slice[z].state = "done"
    /\ recon_volume[0] # omp[0].before
    /\ gdata[0] = [combined_matrix |-> ReadArgs("combined", 0),
                   z_voxel_coords  |-> ReadArgs("z", 0)]
    /\ pdata[0] = [projection       |-> ReadArgs("projection", 1),
                   transform_matrix |-> ReadArgs("transform", 1),
                   volume_weight    |-> ReadArgs("weight", 1)]

\* The volume one worker taking the slices z = 0 .. V-1 in order makes of the
\* volume the region of rank r began with
InOrder(r) == ZLoop(gdata[r], pdata[r], omp[r].before, 0)

\* The detector pixels the candidates of slice z point at
PixelsOf(r, z) ==
    {PixelIndex(map_col(gdata[r], pdata[r], z, i),
                map_row(gdata[r], pdata[r], z, i)) :
        i \in {j \in 0 .. (size - 1) :
                  InDetector(map_col(gdata[r], pdata[r], z, j),
                             map_row(gdata[r], pdata[r], z, j))}}

\* C17: the volume a rank holds after processing a projection does not depend
\* on how the slices are dealt to the threads or how the threads interleave:
\* under every schedule the volume at the end of the region is what a single
\* worker going through z = 0 .. V-1 in order produces, and the candidates of
\* every slice point at the same pixels.
C17_ScheduleIndependent ==
    \A r \in Ranks :
        (pc[r] = "omp" /\ \A z \in Slices : omp[r].slice[z].state = "done") =>
            /\ recon_volume[r] = InOrder(r)
            /\ \A z \in Slices : omp[r].pixels[z] = PixelsOf(r, z)

\* C17 witness: a team of two threads has finished the two slices of the
\* second projection, each slice with products added.
C17_Witness ==
    /\ num_voxels = 2
    /\ pc[0] = "omp"
    /\ omp[0].team = 2
    /\ projection_id[0] = 1
    /\ omp[0].before # Zeros(recon_volume_size)
    /\ \A z \in Slices :
           /\ omp[0].slice[z].state = "done"
           /\ \E i \in 0 .. (size - 1) :
                  recon_volume[0][VolIndex(z, i)] # omp[0].before[VolIndex(z, i)]

=============================================================================
